---------------------------- MODULE Spec2Model ----------------------------
(***************************************************************************)
(* A model of the RAG demo: the Streamlit orchestration flow of            *)
(* Rag_democode.py (text area, Send / Clear buttons, retrieve -> serialize *)
(* -> prompt -> query_bedrock -> record), RetrievalModel.retrieve as a     *)
(* function of the search transport's response, and MemoryManager of       *)
(* memory_manager.py over the LangChain memory objects it builds.          *)
(*                                                                         *)
(* Strings whose characters matter (the text area's value, a strategy      *)
(* name) are sequences of one-character strings; opaque texts (an answer,  *)
(* a document's content) are one-token sequences or plain strings.         *)
(***************************************************************************)
EXTENDS Integers, Sequences, FiniteSets, TLC

VARIABLES
    \* ---- Rag_democode.py: one Streamlit session
    messages,        \* st.session_state.messages
    user_text,       \* the text area's value (key="user_text")
    pc,              \* "idle" | "retrieving" | "generating": where the script run blocks
    retrieved_docs,  \* the script variable retrieved_docs of the current run
    calls,           \* observer: collaborator calls made since the last user action
    hist0,           \* observer: messages when Send was last pressed
    turn,            \* observer: what the last user action was and how it ended
    \* ---- RetrievalModel.retrieve called on its own
    rcall,           \* the last call: its arguments, the transport's response, the result
    \* ---- memory_manager.py: one MemoryManager reference
    mm,              \* the MemoryManager instance, or none
    ctor,            \* the last constructor call and how it ended
    recorded,        \* observer: the Exchanges recorded since construction / the last clear
    lastOp           \* observer: the last MemoryManager call

vars     == <<messages, user_text, pc, retrieved_docs, calls, hist0, turn,
              rcall, mm, ctor, recorded, lastOp>>

(***************************************************************************)
(* Bounds of the model.                                                    *)
(***************************************************************************)
MaxTurns == 2    \* submitted turns kept in the history before Send is held back
MaxHits  == 2    \* hits in one search response
MaxScore == 2    \* distinct relevance scores
MaxTopK  == 3    \* top_k values retrieve is called with on its own
MaxSaves == 4    \* save_conversation calls between two clears
MaxWindow == 3   \* largest window_size a MemoryManager is built with

(***************************************************************************)
(* Text.                                                                   *)
(***************************************************************************)
Whitespace == {" "}
\* What the user may type: nothing, whitespace only, a word, a word with leading,
\* trailing or both kinds of whitespace, and two words with whitespace between.
Texts ==
    { <<>>, <<" ">>, <<" ", " ">>, <<"a">>, <<" ", "a">>, <<"a", " ">>,
      <<" ", "a", " ">>, <<"a", " ", "a">> }

RECURSIVE lstrip(_)
lstrip(s) == IF s # <<>> /\ Head(s) \in Whitespace THEN lstrip(Tail(s)) ELSE s

RECURSIVE rstrip(_)
rstrip(s) == IF s # <<>> /\ s[Len(s)] \in Whitespace
             THEN rstrip(SubSeq(s, 1, Len(s) - 1))
             ELSE s

\* str.strip()
strip(s) == rstrip(lstrip(s))

NonBlankMut(text) == text # <<>>

\* bool(user_text.strip())
NonBlank(text) == strip(text) # <<>>

(***************************************************************************)
(* The vector search transport: what requests.get may come back with.      *)
(***************************************************************************)
AllFields == {"_id", "_score", "content"}

GoodHits == {[id |-> "d1", score |-> s, content |-> "AI is...", fields |-> AllFields] :
                s \in 1..MaxScore}
BadHits  == {[id |-> "d1", score |-> 1, content |-> "AI is...", fields |-> AllFields \ {f}] :
                f \in AllFields}
Hits     == GoodHits \cup BadHits
HitLists == UNION {[1..n -> Hits] : n \in 0..MaxHits}

\* kind: "text" (not JSON), "error_json" (JSON without hits), "search_json" (hits.hits)
Bodies == {[kind |-> "text", hits |-> <<>>], [kind |-> "error_json", hits |-> <<>>]}
            \cup {[kind |-> "search_json", hits |-> hs] : hs \in HitLists}

Statuses == {200, 500}

Responses == {[transport |-> "unreachable", status |-> 0, body |-> [kind |-> "text", hits |-> <<>>]]}
               \cup {[transport |-> "ok", status |-> st, body |-> b] :
                        st \in Statuses, b \in Bodies}

Failure(e, d) == [ok |-> FALSE, error |-> e, detail |-> d, value |-> <<>>]
Success(v)    == [ok |-> TRUE, error |-> "", detail |-> "", value |-> v]

\* RetrievalModel.retrieve: requests.get, then res.json()["hits"]["hits"], returned as is.
retrieve(query, k, resp) ==
    IF resp.transport # "ok" THEN Failure("ConnectionError", "connection refused")
    ELSE IF resp.body.kind = "text" THEN Failure("JSONDecodeError", "Expecting value")
    ELSE IF resp.body.kind # "search_json" THEN Failure("KeyError", "'hits'")
    ELSE Success(resp.body.hits)

(***************************************************************************)
(* The hosted model: what bedrock.invoke_model may come back with.         *)
(***************************************************************************)
Answers == {<<"AI means...">>}

\* kind: "completion" (a body with the completion field), "no_completion" (a body
\* without it), "client_error" (invoke_model raises)
GenOutcomes == {[kind |-> "completion", text |-> a] : a \in Answers}
                 \cup {[kind |-> "no_completion", text |-> <<>>],
                       [kind |-> "client_error", text |-> <<>>]}

\* query_bedrock: invoke_model, then json.loads(...)["completion"]
query_bedrock(prompt, out) ==
    IF out.kind = "client_error" THEN Failure("ClientError", "AccessDeniedException")
    ELSE IF out.kind = "no_completion" THEN Failure("KeyError", "'completion'")
    ELSE Success(out.text)

(***************************************************************************)
(* The main flow's steps.                                                  *)
(***************************************************************************)
top_k == 3

\* Step 2: the list of {id, score, content} read from each hit, in order; the first
\* missing key raises KeyError.
RECURSIVE context_json(_)
context_json(docs) ==
    IF docs = <<>> THEN Success(<<>>)
    ELSE LET doc == Head(docs) IN
         IF "_id" \notin doc.fields THEN Failure("KeyError", "'_id'")
         ELSE IF "_score" \notin doc.fields THEN Failure("KeyError", "'_score'")
         ELSE IF "content" \notin doc.fields THEN Failure("KeyError", "'content'")
         ELSE LET rest == context_json(Tail(docs)) IN
              IF rest.ok
              THEN Success(<<[id |-> doc.id, score |-> doc.score, content |-> doc.content]>>
                              \o rest.value)
              ELSE rest

\* Step 3: the f-string prompt
BuildPrompt(ctx, question) ==
    [template |-> "You are a helpful assistant. ...", context |-> ctx, question |-> question]

UserExchangeMut(text) == [role |-> "user", content |-> text]

\* line 101
UserExchange(text) == [role |-> "user", content |-> strip(text)]

\* f"Error: {e}"
ErrorText(e) == <<"Error: ", e.detail>>

AssistantExchange(content) == [role |-> "assistant", content |-> content]

OnExceptionMut(msgs, e) == msgs

\* except Exception as e: lines 139-142
OnException(msgs, e) == Append(msgs, AssistantExchange(ErrorText(e)))

\* st.button(..., disabled=...): a disabled button never reports a click
Button(pressed, disabled) == pressed /\ ~disabled

Undefined == [defined |-> FALSE, docs |-> <<>>]
Defined(d) == [defined |-> TRUE, docs |-> d]

\* Lines 149-151 of one script run: whether the expander is rendered, and the
\* NameError of reading retrieved_docs when the run never assigned it.
Expander(send_clicked, text, docs) ==
    IF send_clicked /\ NonBlank(text)
    THEN IF docs.defined THEN [shown |-> TRUE, raised |-> "", docs |-> docs.docs]
         ELSE [shown |-> FALSE, raised |-> "NameError", docs |-> <<>>]
    ELSE [shown |-> FALSE, raised |-> "", docs |-> <<>>]

\* A script run with no button reporting a click: the history is shown, both main-flow
\* guards are false and the run ends at the CSS block.
PlainRun(text) == Expander(FALSE, text, Undefined)

NoTurn == [kind |-> "none", query |-> <<>>, outcome |-> "", failed |-> "",
           error |-> Failure("", ""), answer |-> <<>>,
           panel |-> PlainRun(<<>>)]

\* The user edits the text area; the script reruns with no click.
EditText(t) ==
    /\ pc = "idle"
    /\ t # user_text
    /\ user_text' = t
    /\ retrieved_docs' = Undefined
    /\ calls' = <<>>
    /\ hist0' = <<>>
    /\ turn' = [NoTurn EXCEPT !.kind = "edit", !.panel = PlainRun(t)]
    /\ UNCHANGED <<messages, pc, rcall, mm, ctor, recorded, lastOp>>

\* The user presses Clear: lines 93-95, then the rerun st.rerun() asks for.
ClickClear ==
    /\ pc = "idle"
    /\ messages' = <<>>
    /\ retrieved_docs' = Undefined
    /\ calls' = <<>>
    /\ hist0' = <<>>
    /\ turn' = [NoTurn EXCEPT !.kind = "clear", !.panel = PlainRun(user_text)]
    /\ UNCHANGED <<user_text, pc, rcall, mm, ctor, recorded, lastOp>>

\* The user presses Send: lines 85-103. With the guard of line 100 false the run goes
\* on to line 149 and ends; with it true the user Exchange is appended and the run
\* blocks in retriever.retrieve.
ClickSend ==
    /\ pc = "idle"
    /\ LET send_clicked == Button(TRUE, ~NonBlank(user_text)) IN
       IF send_clicked /\ NonBlank(user_text)
       THEN /\ Len(messages) < 2 * MaxTurns
            /\ messages' = Append(messages, UserExchange(user_text))
            /\ pc' = "retrieving"
            /\ turn' = [NoTurn EXCEPT !.kind = "submit", !.query = user_text,
                                      !.outcome = "running"]
       ELSE /\ UNCHANGED <<messages, pc>>
            /\ turn' = [NoTurn EXCEPT !.kind = "submit", !.query = user_text,
                                      !.outcome = "noop",
                                      !.panel = Expander(send_clicked, user_text, Undefined)]
    /\ retrieved_docs' = Undefined
    /\ calls' = <<>>
    /\ hist0' = messages
    /\ UNCHANGED <<user_text, rcall, mm, ctor, recorded, lastOp>>

\* Line 144 and what follows it: st.rerun() ends the run there, and the script runs
\* again from the top with no button reporting a click.
Rerun(t) == [t EXCEPT !.panel = PlainRun(user_text)]

\* retriever.retrieve returns or raises (step 1), then steps 2 and 3.
RetrieveReturns(resp) ==
    /\ pc = "retrieving"
    /\ LET q   == strip(user_text)
           res == retrieve(q, top_k, resp)
           ctx == IF res.ok THEN context_json(res.value) ELSE res
       IN /\ calls' = Append(calls, <<"retrieve", q, top_k>>)
          /\ IF res.ok /\ ctx.ok
             THEN /\ retrieved_docs' = Defined(res.value)
                  /\ pc' = "generating"
                  /\ UNCHANGED <<messages, turn>>
             ELSE /\ messages' = OnException(messages, ctx)
                  /\ retrieved_docs' = Undefined
                  /\ pc' = "idle"
                  /\ turn' = Rerun([turn EXCEPT !.outcome = "failed",
                                                !.failed = IF res.ok THEN "serialize"
                                                                     ELSE "retrieve",
                                                !.error = ctx])
    /\ UNCHANGED <<user_text, hist0, rcall, mm, ctor, recorded, lastOp>>

\* query_bedrock returns or raises (step 4), then step 5 or the handler, then line 144.
GenerateReturns(out) ==
    /\ pc = "generating"
    /\ LET q      == strip(user_text)
           prompt == BuildPrompt(context_json(retrieved_docs.docs).value, q)
           res    == query_bedrock(prompt, out)
       IN /\ calls' = Append(calls, <<"query_bedrock">>)
          /\ IF res.ok
             THEN /\ messages' = Append(messages, AssistantExchange(res.value))
                  /\ turn' = Rerun([turn EXCEPT !.outcome = "answered",
                                                !.answer = res.value])
             ELSE /\ messages' = OnException(messages, res)
                  /\ turn' = Rerun([turn EXCEPT !.outcome = "failed",
                                                !.failed = "generate",
                                                !.error = res])
    /\ retrieved_docs' = Undefined
    /\ pc' = "idle"
    /\ UNCHANGED <<user_text, hist0, rcall, mm, ctor, recorded, lastOp>>

(***************************************************************************)
(* RetrievalModel.retrieve called on its own.                              *)
(***************************************************************************)
TopKs == 1..MaxTopK

\* The request body of lines 35-38: size and k are both top_k.
search_query(query, k) == [size |-> k, k |-> k, vector |-> <<"embedding", query>>]

CallRetrieve(q, k, resp) ==
    /\ rcall' = [called |-> TRUE, query |-> q, top_k |-> k,
                 request |-> search_query(q, k), resp |-> resp,
                 result |-> retrieve(q, k, resp)]
    /\ UNCHANGED <<messages, user_text, pc, retrieved_docs, calls, hist0, turn,
                   mm, ctor, recorded, lastOp>>

NextRetrieve ==
    \E q \in {t \in Texts : NonBlank(t)}, k \in TopKs, resp \in Responses :
        CallRetrieve(q, k, resp)

(***************************************************************************)
(* memory_manager.py.  The memory objects are LangChain's: a chat memory   *)
(* holds the list of messages save_context appends to (a human message,    *)
(* then an AI message); load_memory_variables returns the whole list for   *)
(* ConversationBufferMemory and the last 2k messages (none when k <= 0)    *)
(* for ConversationBufferWindowMemory; clear empties the list.  The        *)
(* summary-buffer, token-buffer and knowledge-graph classes declare a      *)
(* required llm field, which lines 42, 45 and 48 do not pass.              *)
(***************************************************************************)
UpperLetters == <<"A", "B", "C", "D", "E", "F", "G", "H", "I", "J", "K", "L", "M",
                  "N", "O", "P", "Q", "R", "S", "T", "U", "V", "W", "X", "Y", "Z">>
LowerLetters == <<"a", "b", "c", "d", "e", "f", "g", "h", "i", "j", "k", "l", "m",
                  "n", "o", "p", "q", "r", "s", "t", "u", "v", "w", "x", "y", "z">>

lower_char(c) ==
    IF \E i \in 1..Len(UpperLetters) : UpperLetters[i] = c
    THEN LowerLetters[CHOOSE i \in 1..Len(UpperLetters) : UpperLetters[i] = c]
    ELSE c

\* str.lower()
lower(s) == [i \in 1..Len(s) |-> lower_char(s[i])]

Name_buffer         == <<"b", "u", "f", "f", "e", "r">>
Name_window         == <<"w", "i", "n", "d", "o", "w">>
Name_summary        == <<"s", "u", "m", "m", "a", "r", "y">>
Name_summary_buffer == Name_summary \o <<"_">> \o Name_buffer
Name_token_buffer   == <<"t", "o", "k", "e", "n", "_">> \o Name_buffer
Name_kg             == <<"k", "g">>

\* The names a caller may pass: the six of the docstring, some of them in other
\* letter cases, and names that are none of the six.
CandidateNames ==
    { Name_buffer, Name_window, Name_summary, Name_summary_buffer, Name_token_buffer,
      Name_kg,
      <<"B", "u", "f", "f", "e", "r">>, <<"W", "I", "N", "D", "O", "W">>, <<"K", "G">>,
      <<"i", "n", "v", "a", "l", "i", "d">>, <<>>, <<"k", "g", " ">>,
      <<"b", "u", "f", "f", "e", "r", "s">> }

WindowSizes == -1..MaxWindow

Memory(class, k) == [class |-> class, k |-> k, messages |-> <<>>]

_initialize_memoryMut(memory_type, window_size) ==
    IF memory_type = Name_window
    THEN Success(Memory("ConversationBufferWindowMemory", window_size))
    ELSE IF memory_type \in {Name_summary_buffer, Name_token_buffer, Name_kg}
    THEN Failure("ValidationError", "llm: field required")
    ELSE Success(Memory("ConversationBufferMemory", 0))

\* MemoryManager._initialize_memory
_initialize_memory(memory_type, window_size) ==
    IF memory_type = Name_buffer
    THEN Success(Memory("ConversationBufferMemory", 0))
    ELSE IF memory_type = Name_window
    THEN Success(Memory("ConversationBufferWindowMemory", window_size))
    ELSE IF memory_type = Name_summary
    THEN Success(Memory("ConversationBufferMemory", 0))
    ELSE IF memory_type \in {Name_summary_buffer, Name_token_buffer, Name_kg}
    THEN Failure("ValidationError", "llm: field required")
    ELSE Failure("ValueError", "Unsupported memory type")

\* MemoryManager.__init__
__init__(memory_type, window_size) ==
    LET made == _initialize_memory(lower(memory_type), window_size) IN
    IF made.ok
    THEN Success([exists |-> TRUE, memory_type |-> lower(memory_type),
                  window_size |-> window_size, memory |-> made.value])
    ELSE made

save_contextMut(memory, user_input, bot_output) ==
    [memory EXCEPT !.messages = @ \o <<[role |-> "assistant", content |-> bot_output],
                                       [role |-> "user", content |-> user_input]>>]

\* memory.save_context({"input": user_input}, {"output": bot_output})
save_context(memory, user_input, bot_output) ==
    [memory EXCEPT !.messages = @ \o <<[role |-> "user", content |-> user_input],
                                       [role |-> "assistant", content |-> bot_output]>>]

LastN(s, n) == IF n >= Len(s) THEN s ELSE SubSeq(s, Len(s) - n + 1, Len(s))

load_memory_variablesMut(memory) ==
    IF memory.class = "ConversationBufferWindowMemory"
    THEN IF memory.k > 0 THEN LastN(memory.messages, memory.k) ELSE <<>>
    ELSE memory.messages

\* memory.load_memory_variables({}).get("chat_history", [])
load_memory_variables(memory) ==
    IF memory.class = "ConversationBufferWindowMemory"
    THEN IF memory.k > 0 THEN LastN(memory.messages, 2 * memory.k) ELSE <<>>
    ELSE memory.messages

\* MemoryManager.get_chat_history
get_chat_history(m) == load_memory_variables(m.memory)

clearMut(memory) == [memory EXCEPT !.messages = LastN(@, Len(@) - 2)]

\* memory.clear()
clear(memory) == [memory EXCEPT !.messages = <<>>]

UserInputs == {"Hello", "What is AI?"}
BotOutputs == {"Hi there!", "AI means Artificial Intelligence."}

NoOp == [op |-> "none", user_input |-> "", bot_output |-> "", before |-> 0]

\* memory = MemoryManager(memory_type=name, window_size=w)
Construct(name, w) ==
    /\ ~mm.exists
    /\ LET made == __init__(name, w) IN
       /\ mm' = IF made.ok THEN made.value ELSE mm
       /\ ctor' = [called |-> TRUE, name |-> name, window_size |-> w,
                   raised |-> IF made.ok THEN "" ELSE made.error,
                   detail |-> made.detail]
    /\ recorded' = <<>>
    /\ lastOp' = [NoOp EXCEPT !.op = "construct"]
    /\ UNCHANGED <<messages, user_text, pc, retrieved_docs, calls, hist0, turn, rcall>>

\* memory.save_conversation(u, b)
SaveConversation(u, b) ==
    /\ mm.exists
    /\ Len(recorded) < 2 * MaxSaves
    /\ mm' = [mm EXCEPT !.memory = save_context(@, u, b)]
    /\ recorded' = recorded \o <<[role |-> "user", content |-> u],
                                 [role |-> "assistant", content |-> b]>>
    /\ lastOp' = [op |-> "save", user_input |-> u, bot_output |-> b,
                  before |-> Len(get_chat_history(mm))]
    /\ UNCHANGED <<messages, user_text, pc, retrieved_docs, calls, hist0, turn, rcall,
                   ctor>>

\* memory.clear_memory()
ClearMemory ==
    /\ mm.exists
    /\ mm' = [mm EXCEPT !.memory = clear(@)]
    /\ recorded' = <<>>
    /\ lastOp' = [NoOp EXCEPT !.op = "clear", !.before = Len(get_chat_history(mm))]
    /\ UNCHANGED <<messages, user_text, pc, retrieved_docs, calls, hist0, turn, rcall,
                   ctor>>

NextMemory ==
    \/ \E name \in CandidateNames, w \in WindowSizes : Construct(name, w)
    \/ \E u \in UserInputs, b \in BotOutputs : SaveConversation(u, b)
    \/ ClearMemory

NextFlow ==
    \/ \E t \in Texts : EditText(t)
    \/ ClickClear
    \/ ClickSend
    \/ \E resp \in Responses : RetrieveReturns(resp)
    \/ \E out \in GenOutcomes : GenerateReturns(out)

NoCall == [called |-> FALSE, query |-> <<>>, top_k |-> 0,
           request |-> search_query(<<>>, 0),
           resp |-> [transport |-> "unreachable", status |-> 0,
                     body |-> [kind |-> "text", hits |-> <<>>]],
           result |-> Failure("", "")]

NoInstance == [exists |-> FALSE, memory_type |-> <<>>, window_size |-> 0,
               memory |-> [class |-> "", k |-> 0, messages |-> <<>>]]

Init ==
    /\ messages = <<>>
    /\ user_text = <<>>
    /\ pc = "idle"
    /\ retrieved_docs = Undefined
    /\ calls = <<>>
    /\ hist0 = <<>>
    /\ turn = NoTurn
    /\ rcall = NoCall
    /\ mm = NoInstance
    /\ ctor = [called |-> FALSE, name |-> <<>>, window_size |-> 0, raised |-> "",
               detail |-> ""]
    /\ recorded = <<>>
    /\ lastOp = NoOp

SpecFlow     == Init /\ [][NextFlow]_vars
SpecRetrieve == Init /\ [][NextRetrieve]_vars
SpecMemory   == Init /\ [][NextMemory]_vars

(***************************************************************************)
(* Properties of the orchestration flow (SpecFlow).                        *)
(***************************************************************************)
IsBlank(q) == \A i \in 1..Len(q) : q[i] \in Whitespace

\* q without its leading and trailing whitespace, stated by positions
Stripped(q) ==
    LET keep == {i \in 1..Len(q) : q[i] \notin Whitespace} IN
    IF keep = {} THEN <<>>
    ELSE SubSeq(q, CHOOSE i \in keep : \A j \in keep : i <= j,
                   CHOOSE i \in keep : \A j \in keep : j <= i)

Called(fn) == \E i \in 1..Len(calls) : calls[i][1] = fn

RetrievalSucceeded ==
    turn.kind = "submit" /\ (turn.outcome = "answered" \/ turn.failed = "generate")

\* C1: a submit action on an empty or whitespace-only query calls neither the
\* Retriever nor the Generator and leaves st.session_state.messages as it was.
C1_BlankSubmitIsNoOp ==
    (turn.kind = "submit" /\ IsBlank(turn.query))
        => (calls = <<>> /\ messages = hist0 /\ pc = "idle")

C1_Witness ==
    /\ turn.kind = "submit"
    /\ turn.query # <<>>
    /\ IsBlank(turn.query)
    /\ hist0 # <<>>

\* C2: a turn whose retrieval, serialization, prompt building or generation fails
\* ends with the history extended by the user Exchange and then an assistant
\* Exchange "Error: <detail>"; when the failure is the Retriever's (or a hit without
\* _id/_score/_source.content) the Generator is never called; and the run that
\* follows raises nothing.
C2_FailureIsRecorded ==
    (turn.kind = "submit" /\ turn.outcome = "failed")
        => /\ pc = "idle"
           /\ ~turn.error.ok /\ turn.error.detail # ""
           /\ messages = hist0 \o <<[role |-> "user", content |-> Stripped(turn.query)],
                                    [role |-> "assistant",
                                     content |-> <<"Error: ", turn.error.detail>>]>>
           /\ (turn.failed \in {"retrieve", "serialize"} => ~Called("query_bedrock"))
           /\ turn.panel.raised = ""

C2_Witness ==
    /\ turn.kind = "submit"
    /\ turn.outcome = "failed"
    /\ turn.failed = "retrieve"
    /\ turn.error.error = "ConnectionError"
    /\ hist0 # <<>>
    /\ Len(messages) = Len(hist0) + 2

\* C3: a turn in which the Retriever and the Generator both succeed calls the
\* Retriever once with top_k = 3, then the Generator once, and leaves the history
\* equal to the prior history followed by the user Exchange (the query stripped)
\* and the assistant Exchange (the answer).
C3_SuccessfulTurn ==
    (turn.kind = "submit" /\ turn.outcome = "answered")
        => /\ pc = "idle"
           /\ calls = << <<"retrieve", Stripped(turn.query), 3>>, <<"query_bedrock">> >>
           /\ messages = hist0 \o <<[role |-> "user", content |-> Stripped(turn.query)],
                                    [role |-> "assistant", content |-> turn.answer]>>

C3_Witness ==
    /\ turn.kind = "submit"
    /\ turn.outcome = "answered"
    /\ turn.query # Stripped(turn.query)
    /\ hist0 # <<>>
    /\ turn.answer \in Answers

\* C10: after a submit whose retrieval succeeded the expander with that turn's
\* retrieved documents is rendered; after a submit whose retrieval failed, the
\* expander step does not raise NameError for retrieved_docs.
C10_ExpanderShown ==
    /\ (RetrievalSucceeded /\ pc = "idle")
          => (turn.panel.shown /\ turn.panel.docs # <<>>)
    /\ (turn.kind = "submit" /\ turn.outcome = "failed" /\ turn.failed # "generate")
          => turn.panel.raised # "NameError"

(***************************************************************************)
(* Properties of RetrievalModel.retrieve (SpecRetrieve).                   *)
(***************************************************************************)
WellFormed(body) ==
    /\ body.kind = "search_json"
    /\ \A i \in 1..Len(body.hits) : body.hits[i].fields = AllFields

\* C8: for a non-blank query and top_k > 0, whatever the search service answers,
\* a result retrieve returns has at most top_k documents, in descending order of
\* relevance score.
C8_AtMostTopKSortedDescending ==
    (rcall.called /\ rcall.result.ok /\ rcall.resp.status \in 200..299
        /\ WellFormed(rcall.resp.body))
        => /\ Len(rcall.result.value) <= rcall.top_k
           /\ \A i, j \in 1..Len(rcall.result.value) :
                 i < j => rcall.result.value[i].score >= rcall.result.value[j].score

\* C9: retrieve fails when the transport answers with a non-success status,
\* whatever the body, and fails when the body is not hits.hits with _id, _score
\* and _source.content on every hit.
C9_FailsOnBadStatusOrShape ==
    rcall.called
        => /\ (rcall.resp.transport = "ok" /\ rcall.resp.status \notin 200..299)
                 => ~rcall.result.ok
           /\ (rcall.resp.transport = "ok" /\ ~WellFormed(rcall.resp.body))
                 => ~rcall.result.ok

(***************************************************************************)
(* Properties of MemoryManager (SpecMemory).                               *)
(***************************************************************************)
EnumeratedNames ==
    {Name_buffer, Name_window, Name_summary, Name_summary_buffer, Name_token_buffer,
     Name_kg}

Unsupported(c) == c.raised = "ValueError" /\ c.detail = "Unsupported memory type"

IsSuffix(t, s) == Len(t) <= Len(s) /\ t = SubSeq(s, Len(s) - Len(t) + 1, Len(s))

C5_WindowKeepsAtMostW ==
    (mm.exists /\ mm.memory_type = Name_window /\ mm.window_size >= 0
        /\ Len(recorded) > mm.window_size)
        => /\ Len(get_chat_history(mm)) <= mm.window_size
           /\ IsSuffix(LastN(recorded, mm.window_size), get_chat_history(mm))

\* C5 as amended: a window manager of size W >= 0 that has recorded N > W Exchanges
\* returns at most 2*W entries (W user/assistant pairs): the 2*W most recent
\* entries in chronological order, which end with the W most recent ones.
C5_WindowKeepsAtMost2W ==
    (mm.exists /\ mm.memory_type = Name_window /\ mm.window_size >= 0
        /\ Len(recorded) > mm.window_size)
        => /\ Len(get_chat_history(mm)) <= 2 * mm.window_size
           /\ get_chat_history(mm) = LastN(recorded, 2 * mm.window_size)
           /\ IsSuffix(LastN(recorded, mm.window_size), get_chat_history(mm))

C5_Witness ==
    /\ mm.exists
    /\ mm.memory_type = Name_window
    /\ mm.window_size >= 1
    /\ Len(recorded) > 2 * mm.window_size
    /\ Len(get_chat_history(mm)) = 2 * mm.window_size

EndsWithSavedPair(h) ==
    /\ Len(h) >= 2
    /\ h[Len(h)] = [role |-> "assistant", content |-> lastOp.bot_output]
    /\ h[Len(h) - 1] = [role |-> "user", content |-> lastOp.user_input]

\* C6 as stated: for the buffer strategy and for the window strategy with any
\* window_size the constructor accepts, get_chat_history right after
\* save_conversation(u, b) is non-empty and ends with u's Exchange, then b's.
C6_SaveThenHistoryEndsWithPair ==
    (mm.exists /\ lastOp.op = "save" /\ mm.memory_type \in {Name_buffer, Name_window})
        => EndsWithSavedPair(get_chat_history(mm))

\* C6 as amended: the same for the buffer strategy and for the window strategy
\* with window_size >= 1.
C6_SaveThenHistoryEndsWithPairInWindow ==
    (mm.exists /\ lastOp.op = "save"
        /\ (mm.memory_type = Name_buffer
              \/ (mm.memory_type = Name_window /\ mm.window_size >= 1)))
        => EndsWithSavedPair(get_chat_history(mm))

C6_Witness ==
    /\ mm.exists
    /\ mm.memory_type = Name_window
    /\ mm.window_size = 1
    /\ lastOp.op = "save"
    /\ Len(recorded) >= 4
    /\ Len(get_chat_history(mm)) = 2

\* C7: constructing with a name that, lower-cased, is none of the six fails with
\* the unsupported-strategy error and leaves no instance; constructing with one
\* of the six (in any letter case) does not raise that error.
C7_UnsupportedStrategyAtConstruction ==
    ctor.called
        => /\ lower(ctor.name) \notin EnumeratedNames
                 => (Unsupported(ctor) /\ ~mm.exists)
           /\ lower(ctor.name) \in EnumeratedNames => ~Unsupported(ctor)

C7_Witness ==
    /\ ctor.called
    /\ ctor.name = <<"i", "n", "v", "a", "l", "i", "d">>
    /\ Unsupported(ctor)
    /\ ~mm.exists

====
